---- MODULE Spec2Model ----
(***************************************************************************)
(* EdTech Platform API (src/main.py, src/schemas.py).                      *)
(*                                                                         *)
(* The request handlers of main.py over the document store.  A collection  *)
(* is the sequence of its documents in insertion (natural) order; a        *)
(* document is a record whose DOMAIN is the set of fields it carries, so   *)
(* a field that an upsert never wrote is absent, as in the store.          *)
(* Identifiers: a lesson's _id is its position in the lesson collection;   *)
(* BadId stands for a string that is not a well-formed ObjectId.           *)
(***************************************************************************)
EXTENDS Integers, Sequences, FiniteSets

VARIABLES user, lesson, quiz, enrollment, lessonprogress,
          transaction, notification, sortTie, nreq, resp

vars == <<user, lesson, quiz, enrollment, lessonprogress,
          transaction, notification, sortTie, nreq, resp>>

(* ------------------------------ bounds --------------------------------- *)
MaxLessons == 3
MaxTx == 3
MaxRequests == 2

(* ------------------------------ inputs --------------------------------- *)
Learners == {"u1", "u2"}
Admin == "adm"
Ghost == "ghost"
Callers == Learners \cup {Admin, Ghost}
CourseIds == {"c1", "c2"}
Orders == {0, 1, 2}
BadId == 0
LessonIds == 0..MaxLessons
CoinInputs == {-5, 0, 10}
PointInputs == {-100, 50, 100, 250}
AnswerInputs == {<<0>>, <<0, 1>>, <<1, 1>>}

(* schemas.py: Optional[int] = None *)
None == -999

(* schemas.py Question / Quiz *)
Question(ci, p) == [correct_index |-> ci, points |-> p]
QuizInputs ==
    { [questions |-> <<Question(0, 1), Question(1, 2)>>, pass_percentage |-> 60],
      [questions |-> <<Question(0, -1), Question(1, 1)>>, pass_percentage |-> 60] }

(* --------------------------- document store ---------------------------- *)
\* the document d with the fields of s written over it ($set, and an upsert's
\* insert of the query fields plus the $set fields)
Merge(s, d) ==
    [f \in DOMAIN s \cup DOMAIN d |-> IF f \in DOMAIN s THEN s[f] ELSE d[f]]

Get(d, f, default) == IF f \in DOMAIN d THEN d[f] ELSE default

Matches(d, q) == \A f \in DOMAIN q : f \in DOMAIN d /\ d[f] = q[f]

MatchIdx(coll, q) == {i \in 1..Len(coll) : Matches(coll[i], q)}

Min(S) == CHOOSE x \in S : \A y \in S : x <= y
Max(S) == CHOOSE x \in S : \A y \in S : x >= y

\* find_one(q): index of the first matching document, 0 when there is none
FindOne(coll, q) == IF MatchIdx(coll, q) = {} THEN 0 ELSE Min(MatchIdx(coll, q))

\* fault: the upsert inserts without looking for a matching document
UpdateOneInsert(coll, q, s) == Append(coll, Merge(s, q))

\* update_one(q, {"$set": s}, upsert=True)
UpdateOneUpsert(coll, q, s) ==
    IF FindOne(coll, q) # 0
    THEN [coll EXCEPT ![FindOne(coll, q)] = Merge(s, coll[FindOne(coll, q)])]
    ELSE Append(coll, Merge(s, q))

\* update_one({"_id": id}, {"$inc": {"coins": dc, "points": dp}})
IncWallet(coll, id, dc, dp) ==
    LET i == FindOne(coll, [_id |-> id])
    IN IF i = 0 THEN coll
       ELSE [coll EXCEPT ![i].coins = @ + dc, ![i].points = @ + dp]

\* database.create_document: insert one document (its timestamps are left out)
CreateDocument(coll, doc) == Append(coll, doc)

\* find_one(..., sort=[("order", 1)]) over a candidate index set: a document
\* of least order; which one among equal orders is the store's choice, fixed
\* by sortTie for the whole run
FirstByOrder(cands) ==
    IF cands = {} THEN 0
    ELSE LET lo == Min({lesson[i].order : i \in cands})
             ties == {i \in cands : lesson[i].order = lo}
         IN IF sortTie = "first" THEN Min(ties) ELSE Max(ties)

(* ------------------------------ helpers -------------------------------- *)
\* get_user_or_404 / current_user: index of the caller's user document, 0 -> 401
CurrentUser(caller) == FindOne(user, [_id |-> caller])

\* admin_required
IsAdmin(caller) == user[CurrentUser(caller)].role \in {"admin", "instructor"}

\* resp is the last response together with the request it answers; again
\* tells that this request repeats the one answered just before
Again(op, caller, args) == resp.op = op /\ resp.user = caller /\ resp.args = args

\* a request rejected before any write (HTTPException)
Err(op, code, detail) ==
    [op |-> op, user |-> Ghost, args |-> <<>>, again |-> FALSE, status |-> code,
     body |-> [detail |-> detail]]

\* a rejection kept with its caller and arguments
ErrReq(op, caller, args, code, detail) ==
    [op |-> op, user |-> caller, args |-> args, again |-> Again(op, caller, args),
     status |-> code, body |-> [detail |-> detail]]

Ok(op, caller, args, body) ==
    [op |-> op, user |-> caller, args |-> args, again |-> Again(op, caller, args),
     status |-> 200, body |-> body]

(* ------------------------------- Init ---------------------------------- *)
\* The store as the handlers find it: two learners and an admin, course c1
\* with lessons 1 (order 0) and 2 (order 1), a quiz on lesson 1, and u1 either
\* not enrolled or enrolled in c1 by the enroll handler.
Init ==
    /\ user = << [_id |-> "u1", role |-> "student", coins |-> 0, points |-> 250],
                 [_id |-> "u2", role |-> "student", coins |-> 0, points |-> 0],
                 [_id |-> Admin, role |-> "admin", coins |-> 0, points |-> 0] >>
    /\ lesson = << [_id |-> 1, course_id |-> "c1", order |-> 0],
                   [_id |-> 2, course_id |-> "c1", order |-> 1] >>
    /\ quiz = << [lesson_id |-> 1, questions |-> <<Question(0, 1), Question(1, 2)>>,
                  pass_percentage |-> 60] >>
    /\ \E enrolled \in BOOLEAN :
         /\ enrollment =
              IF enrolled
              THEN << [user_id |-> "u1", course_id |-> "c1", status |-> "active"] >>
              ELSE <<>>
         /\ lessonprogress =
              IF enrolled
              THEN << [user_id |-> "u1", course_id |-> "c1", lesson_id |-> 1,
                       is_unlocked |-> TRUE, is_completed |-> FALSE,
                       quiz_score |-> None, quiz_total |-> None] >>
              ELSE <<>>
    /\ transaction = <<>>
    /\ notification = <<>>
    /\ sortTie \in {"first", "last"}
    /\ nreq = 0
    /\ resp = Err("none", 0, "none")

(* ------------------------------ wallet --------------------------------- *)
COIN_TO_POINTS == 100

\* fault: a purchase of zero coins passes validation
InvalidCoinAmountStrict(coins) == coins < 0

\* buy_coins: payload.coins <= 0
InvalidCoinAmount(coins) == coins <= 0

\* fault: the conversion rounds up instead of truncating
ExchangeCoinsRoundUp(points) == (points + COIN_TO_POINTS - 1) \div COIN_TO_POINTS

\* exchange_points: coins = payload.points // COIN_TO_POINTS
ExchangeCoins(points) == points \div COIN_TO_POINTS

BuyCoins(caller, coins) ==
    LET args == <<coins>> IN
    /\ Len(transaction) < MaxTx
    /\ IF CurrentUser(caller) = 0
       THEN /\ resp' = ErrReq("buy_coins", caller, args, 401, "Invalid user")
            /\ UNCHANGED <<user, transaction, notification>>
       ELSE IF InvalidCoinAmount(coins)
       THEN /\ resp' = ErrReq("buy_coins", caller, args, 400, "Invalid coin amount")
            /\ UNCHANGED <<user, transaction, notification>>
       ELSE /\ user' = IncWallet(user, caller, coins, 0)
            /\ transaction' = CreateDocument(transaction,
                   [user_id |-> caller, type |-> "buy_coins", amount |-> coins,
                    status |-> "success", reference |-> "PAY-MOCK"])
            /\ notification' = CreateDocument(notification,
                   [user_id |-> caller, title |-> "Payment Successful",
                    message |-> <<"Added", coins>>, type |-> "success",
                    is_read |-> FALSE])
            /\ resp' = Ok("buy_coins", caller, args,
                   [coins |-> user'[CurrentUser(caller)].coins])
    /\ UNCHANGED <<lesson, quiz, enrollment, lessonprogress, sortTie, nreq>>

ExchangePoints(caller, points) ==
    LET args == <<points>>
        coins == ExchangeCoins(points)
    IN
    /\ Len(transaction) < MaxTx
    /\ IF CurrentUser(caller) = 0
       THEN /\ resp' = ErrReq("exchange_points", caller, args, 401, "Invalid user")
            /\ UNCHANGED <<user, transaction, notification>>
       ELSE IF points <= 0
       THEN /\ resp' = ErrReq("exchange_points", caller, args, 400, "Invalid points")
            /\ UNCHANGED <<user, transaction, notification>>
       ELSE IF coins <= 0
       THEN /\ resp' = ErrReq("exchange_points", caller, args, 400,
                           "Not enough points for 1 coin")
            /\ UNCHANGED <<user, transaction, notification>>
       ELSE /\ user' = IncWallet(user, caller, coins, -coins * COIN_TO_POINTS)
            /\ transaction' = CreateDocument(transaction,
                   [user_id |-> caller, type |-> "exchange_points",
                    amount |-> points, status |-> "success", reference |-> "None"])
            /\ notification' = CreateDocument(notification,
                   [user_id |-> caller, title |-> "Exchange Successful",
                    message |-> <<"Converted", coins * COIN_TO_POINTS, coins>>,
                    type |-> "success", is_read |-> FALSE])
            /\ resp' = Ok("exchange_points", caller, args,
                   [coins |-> user'[CurrentUser(caller)].coins,
                    points |-> user'[CurrentUser(caller)].points])
    /\ UNCHANGED <<lesson, quiz, enrollment, lessonprogress, sortTie, nreq>>

NextWallet ==
    \/ \E caller \in Callers, coins \in CoinInputs : BuyCoins(caller, coins)
    \/ \E caller \in Callers, points \in PointInputs : ExchangePoints(caller, points)

SpecWallet == Init /\ [][NextWallet]_vars

(* ------------------------------ catalog -------------------------------- *)
CreateLesson(caller, course_id, lsn) ==
    LET args == <<course_id, lsn>> IN
    /\ Len(lesson) < MaxLessons
    /\ nreq < MaxRequests
    /\ IF CurrentUser(caller) = 0
       THEN /\ resp' = Err("create_lesson", 401, "Invalid user")
            /\ UNCHANGED <<lesson, nreq>>
       ELSE IF ~IsAdmin(caller)
       THEN /\ resp' = Err("create_lesson", 403, "Admin access required")
            /\ UNCHANGED <<lesson, nreq>>
       ELSE IF lsn.course_id # course_id
       THEN /\ resp' = Err("create_lesson", 400, "course_id mismatch")
            /\ UNCHANGED <<lesson, nreq>>
       ELSE /\ lesson' = CreateDocument(lesson,
                                       Merge([_id |-> Len(lesson) + 1], lsn))
            /\ nreq' = nreq + 1
            /\ resp' = Ok("create_lesson", caller, args, lesson'[Len(lesson')])
    /\ UNCHANGED <<user, quiz, enrollment, lessonprogress, transaction,
                   notification, sortTie>>

SetQuiz(caller, lesson_id, qz) ==
    LET args == <<lesson_id, qz>> IN
    /\ nreq < MaxRequests
    /\ IF CurrentUser(caller) = 0
       THEN /\ resp' = Err("set_quiz", 401, "Invalid user")
            /\ UNCHANGED <<quiz, nreq>>
       ELSE IF ~IsAdmin(caller)
       THEN /\ resp' = Err("set_quiz", 403, "Admin access required")
            /\ UNCHANGED <<quiz, nreq>>
       ELSE IF qz.lesson_id # lesson_id
       THEN /\ resp' = Err("set_quiz", 400, "lesson_id mismatch")
            /\ UNCHANGED <<quiz, nreq>>
       ELSE /\ quiz' = UpdateOneUpsert(quiz, [lesson_id |-> lesson_id], qz)
            /\ nreq' = nreq + 1
            /\ resp' = Ok("set_quiz", caller, args, [ok |-> TRUE])
    /\ UNCHANGED <<user, lesson, enrollment, lessonprogress, transaction,
                   notification, sortTie>>

(* ----------------------- enrollment and progress ----------------------- *)
\* fault: the existing enrollment is never found
ExistsUnchecked(enr) == FALSE

\* enroll: exists = db.enrollment.find_one({user_id, course_id})
Exists(enr) ==
    FindOne(enrollment, [user_id |-> enr.user_id, course_id |-> enr.course_id]) # 0

\* fault: the sort is descending, so the last lesson of the course is taken
FirstLessonDescending(course_id) ==
    LET cands == MatchIdx(lesson, [course_id |-> course_id])
    IN IF cands = {} THEN 0
       ELSE CHOOSE i \in cands : \A j \in cands :
                lesson[i].order > lesson[j].order
                  \/ (lesson[i].order = lesson[j].order /\ i >= j)

\* enroll: first_lesson = db.lesson.find_one({course_id}, sort=[("order", 1)])
FirstLesson(course_id) == FirstByOrder(MatchIdx(lesson, [course_id |-> course_id]))

Enroll(caller, enr) ==
    LET args == <<enr.user_id, enr.course_id>>
        first_lesson == FirstLesson(enr.course_id)
    IN
    /\ nreq < MaxRequests
    /\ IF CurrentUser(caller) = 0
       THEN /\ resp' = Err("enroll", 401, "Invalid user")
            /\ UNCHANGED <<enrollment, lessonprogress, nreq>>
       ELSE IF caller # enr.user_id
       THEN /\ resp' = Err("enroll", 403, "Cannot enroll for another user")
            /\ UNCHANGED <<enrollment, lessonprogress, nreq>>
       ELSE IF Exists(enr)
       THEN /\ resp' = Ok("enroll", caller, args, [message |-> "Already enrolled"])
            /\ nreq' = nreq + 1
            /\ UNCHANGED <<enrollment, lessonprogress>>
       ELSE /\ enrollment' = CreateDocument(enrollment, enr)
            /\ lessonprogress' =
                 IF first_lesson # 0
                 THEN CreateDocument(lessonprogress,
                        [user_id |-> enr.user_id, course_id |-> enr.course_id,
                         lesson_id |-> lesson[first_lesson]._id,
                         is_unlocked |-> TRUE, is_completed |-> FALSE,
                         quiz_score |-> None, quiz_total |-> None])
                 ELSE lessonprogress
            /\ nreq' = nreq + 1
            /\ resp' = Ok("enroll", caller, args, [enrollment_id |-> Len(enrollment')])
    /\ UNCHANGED <<user, lesson, quiz, transaction, notification, sortTie>>

RECURSIVE SumPoints(_)
SumPoints(questions) ==
    IF questions = <<>> THEN 0
    ELSE questions[1].points + SumPoints(Tail(questions))

RECURSIVE Score(_, _, _)
\* the loop of submit_quiz from question index i (1-based here)
Score(questions, answers, i) ==
    IF i > Len(questions) THEN 0
    ELSE (IF i <= Len(answers) /\ answers[i] = questions[i].correct_index
          THEN questions[i].points ELSE 0) + Score(questions, answers, i + 1)

\* sum(...) or 1
MaxPoints(questions) == IF SumPoints(questions) = 0 THEN 1 ELSE SumPoints(questions)

Abs(n) == IF n < 0 THEN -n ELSE n

\* int((score / max_points) * 100): truncation toward zero.  The float
\* expression and the exact quotient agree for every |score|, |max_points| <= 12,
\* which covers all quizzes of QuizInputs.
Pct(score, max_points) ==
    LET q == Abs(score * 100) \div Abs(max_points)
    IN IF (score < 0) # (max_points < 0) THEN -q ELSE q

\* fault: "$gte" in place of "$gt"
NextLessonAtOrAbove(lsn) ==
    FirstByOrder({i \in MatchIdx(lesson, [course_id |-> lsn.course_id]) :
                    lesson[i].order >= lsn.order})

\* the lesson after lsn in its course: strictly greater order, least first
NextLesson(lsn) ==
    FirstByOrder({i \in MatchIdx(lesson, [course_id |-> lsn.course_id]) :
                    lesson[i].order > lsn.order})

SubmitQuiz(caller, lesson_id, answers) ==
    LET args == <<lesson_id, answers>>
        qi == FindOne(quiz, [lesson_id |-> lesson_id])
        questions == quiz[qi].questions
        score == Score(questions, answers, 1)
        max_points == MaxPoints(questions)
        pct == Pct(score, max_points)
        passed == pct >= quiz[qi].pass_percentage
        lp1 == UpdateOneUpsert(lessonprogress,
                   [user_id |-> caller, lesson_id |-> lesson_id],
                   [is_completed |-> TRUE, quiz_score |-> score,
                    quiz_total |-> max_points])
        li == FindOne(lesson, [_id |-> lesson_id])
        nxt == NextLesson(lesson[li])
        result == [score |-> score, total |-> max_points, percentage |-> pct,
                   passed |-> passed]
    IN
    /\ nreq < MaxRequests
    /\ IF CurrentUser(caller) = 0
       THEN /\ resp' = Err("submit_quiz", 401, "Invalid user")
            /\ UNCHANGED <<lessonprogress, nreq>>
       ELSE IF qi = 0
       THEN /\ resp' = Err("submit_quiz", 404, "Quiz not found")
            /\ UNCHANGED <<lessonprogress, nreq>>
       ELSE IF passed /\ lesson_id = BadId
       THEN /\ lessonprogress' = lp1
            /\ nreq' = nreq + 1
            /\ resp' = ErrReq("submit_quiz", caller, args, 400, "Invalid id")
       ELSE IF passed /\ li # 0 /\ nxt # 0
       THEN /\ lessonprogress' = UpdateOneUpsert(lp1,
                   [user_id |-> caller, lesson_id |-> lesson[nxt]._id],
                   [user_id |-> caller, course_id |-> lesson[li].course_id,
                    lesson_id |-> lesson[nxt]._id, is_unlocked |-> TRUE])
            /\ nreq' = nreq + 1
            /\ resp' = Ok("submit_quiz", caller, args, result)
       ELSE /\ lessonprogress' = lp1
            /\ nreq' = nreq + 1
            /\ resp' = Ok("submit_quiz", caller, args, result)
    /\ UNCHANGED <<user, lesson, quiz, enrollment, transaction, notification,
                   sortTie>>

(* ------------------------------- admin --------------------------------- *)
AdminUnlock(caller, user_id, lesson_id) ==
    LET args == <<user_id, lesson_id>>
        li == FindOne(lesson, [_id |-> lesson_id])
    IN
    /\ nreq < MaxRequests
    /\ IF CurrentUser(caller) = 0
       THEN /\ resp' = Err("admin_unlock", 401, "Invalid user")
            /\ UNCHANGED <<lessonprogress, nreq>>
       ELSE IF ~IsAdmin(caller)
       THEN /\ resp' = Err("admin_unlock", 403, "Admin access required")
            /\ UNCHANGED <<lessonprogress, nreq>>
       ELSE IF lesson_id = BadId
       THEN /\ resp' = Err("admin_unlock", 400, "Invalid id")
            /\ UNCHANGED <<lessonprogress, nreq>>
       ELSE IF li = 0
       THEN /\ resp' = Err("admin_unlock", 404, "Lesson not found")
            /\ UNCHANGED <<lessonprogress, nreq>>
       ELSE /\ lessonprogress' = UpdateOneUpsert(lessonprogress,
                   [user_id |-> user_id, lesson_id |-> lesson_id],
                   [user_id |-> user_id, course_id |-> lesson[li].course_id,
                    lesson_id |-> lesson_id, is_unlocked |-> TRUE])
            /\ nreq' = nreq + 1
            /\ resp' = Ok("admin_unlock", caller, args, [ok |-> TRUE])
    /\ UNCHANGED <<user, lesson, quiz, enrollment, transaction, notification,
                   sortTie>>

LessonInputs == [course_id : CourseIds, order : Orders]
EnrollInputs == [user_id : Learners, course_id : CourseIds, status : {"active"}]

\* Catalog requests come from the admin with matching path and body ids;
\* learner requests from the learners (one may try to enroll the other) or
\* from an unknown caller; unlock requests from the admin or from a learner.
NextLearn ==
    \/ \E lsn \in LessonInputs : CreateLesson(Admin, lsn.course_id, lsn)
    \/ \E l \in LessonIds, q \in QuizInputs :
         SetQuiz(Admin, l, Merge([lesson_id |-> l], q))
    \/ \E caller \in Learners \cup {Ghost}, enr \in EnrollInputs : Enroll(caller, enr)
    \/ \E caller \in Learners \cup {Ghost}, l \in LessonIds, a \in AnswerInputs :
         SubmitQuiz(caller, l, a)
    \/ \E caller \in {Admin, "u1"}, u \in Learners, l \in LessonIds :
         AdminUnlock(caller, u, l)

SpecLearn == Init /\ [][NextLearn]_vars

(* ======================= properties of the handlers ==================== *)
Pairs == Learners \X LessonIds

\* some progress document of (u, l) in coll carries is_unlocked = true
UnlockedIn(coll, u, l) ==
    \E i \in 1..Len(coll) :
        /\ Matches(coll[i], [user_id |-> u, lesson_id |-> l])
        /\ Get(coll[i], "is_unlocked", FALSE)

\* the unlock state of every pair except those in keep is the same in the
\* progress store before and after the step
UnlockFrame(keep) ==
    \A pr \in Pairs \ keep :
        UnlockedIn(lessonprogress', pr[1], pr[2]) = UnlockedIn(lessonprogress, pr[1], pr[2])

\* no document present before the step has its is_unlocked field touched
UnlockFieldsKept ==
    /\ Len(lessonprogress') >= Len(lessonprogress)
    /\ \A i \in 1..Len(lessonprogress) :
        /\ ("is_unlocked" \in DOMAIN lessonprogress'[i])
             = ("is_unlocked" \in DOMAIN lessonprogress[i])
        /\ Get(lessonprogress'[i], "is_unlocked", FALSE)
             = Get(lessonprogress[i], "is_unlocked", FALSE)

\* the step is a submit_quiz that returned a result
SubmitReturned == resp'.op = "submit_quiz" /\ resp'.status = 200 /\ nreq' # nreq

\* the step is an enroll that created an enrollment
EnrollCreated ==
    resp'.op = "enroll" /\ resp'.status = 200 /\ nreq' # nreq
      /\ "enrollment_id" \in DOMAIN resp'.body

\* lessons of course c whose order exceeds floor and is least among those
LeastAbove(c, floor) ==
    {n \in 1..Len(lesson) :
        /\ lesson[n].course_id = c /\ lesson[n].order > floor
        /\ \A m \in 1..Len(lesson) :
             (lesson[m].course_id = c /\ lesson[m].order > floor)
                => lesson[n].order <= lesson[m].order}

\* C1: every result returned by submit_quiz has 0 <= percentage <= 100 and
\* score <= total, whatever the points and correct_index of the questions.
C1_PercentageInRange ==
    (resp.op = "submit_quiz" /\ resp.status = 200)
        => /\ 0 <= resp.body.percentage
           /\ resp.body.percentage <= 100
           /\ resp.body.score <= resp.body.total

\* C2: after any sequence of buy_coins and exchange_points requests every
\* user's coins and points are still >= 0.
C2_WalletNonNegative ==
    \A i \in 1..Len(user) : user[i].coins >= 0 /\ user[i].points >= 0

\* C3: the enrollment store holds at most one Enrollment per (user_id,
\* course_id); an enroll request for a pair that is already enrolled answers
\* "Already enrolled" and adds no Enrollment and no LessonProgress document.
C3_EnrollOnce ==
    [][ /\ \A u \in Learners, c \in CourseIds :
             Cardinality(MatchIdx(enrollment', [user_id |-> u, course_id |-> c])) <= 1
        /\ (resp'.op = "enroll" /\ resp'.status = 200 /\ nreq' # nreq
              /\ MatchIdx(enrollment, [user_id |-> resp'.args[1],
                                       course_id |-> resp'.args[2]]) # {})
             => /\ resp'.body = [message |-> "Already enrolled"]
                /\ enrollment' = enrollment
                /\ lessonprogress' = lessonprogress ]_vars

C3_Witness ==
    /\ resp.op = "enroll" /\ resp.status = 200
    /\ "message" \in DOMAIN resp.body
    /\ Cardinality(MatchIdx(enrollment, [user_id |-> resp.args[1],
                                         course_id |-> resp.args[2]])) = 1

\* C4: a passing submit_quiz by u on an existing lesson L unlocks for u a
\* lesson of least order strictly greater than L's order in L's course and
\* changes the unlock state of no other (user, lesson) pair; a failing
\* submit_quiz changes no is_unlocked value at all.
C4_PassUnlocksNextOnly ==
    [][ SubmitReturned =>
          LET u == resp'.user
              L == resp'.args[1]
              nexts == IF L \in 1..Len(lesson)
                       THEN LeastAbove(lesson[L].course_id, lesson[L].order)
                       ELSE {}
          IN IF resp'.body.passed
             THEN (L \in 1..Len(lesson)) =>
                    IF nexts = {} THEN UnlockFrame({})
                    ELSE \E n \in nexts :
                           /\ UnlockedIn(lessonprogress', u, n)
                           /\ UnlockFrame({<<u, n>>})
             ELSE UnlockFrame({}) /\ UnlockFieldsKept ]_vars

C4_Witness ==
    /\ resp.op = "submit_quiz" /\ resp.status = 200 /\ resp.body.passed
    /\ resp.args[1] \in 1..Len(lesson)
    /\ \E n \in LeastAbove(lesson[resp.args[1]].course_id, lesson[resp.args[1]].order) :
         /\ UnlockedIn(lessonprogress, resp.user, n)
         /\ \E m \in 1..Len(lesson) : m # n /\ ~UnlockedIn(lessonprogress, resp.user, m)

\* C5: there is at most one LessonProgress document per (user_id, lesson_id),
\* whatever the order of enroll, submit_quiz and admin_unlock.
C5_OneProgressPerPair ==
    \A pr \in Pairs :
        Cardinality(MatchIdx(lessonprogress,
                             [user_id |-> pr[1], lesson_id |-> pr[2]])) <= 1

\* C6: exchange_points(p) is rejected with 400, leaving the user collection
\* and the Transaction and Notification collections as they were, when
\* p <= 0 or p < 100; otherwise coins grows by p div 100 and points shrinks
\* by 100 * (p div 100), the remainder p mod 100 being kept.
C6_ExchangePoints ==
    [][ (resp'.op = "exchange_points" /\ CurrentUser(resp'.user) # 0) =>
          LET p == resp'.args[1]
              i == CurrentUser(resp'.user)
          IN IF p <= 0 \/ p < 100
             THEN /\ resp'.status = 400
                  /\ UNCHANGED <<user, transaction, notification>>
             ELSE /\ resp'.status = 200
                  /\ user'[i].coins = user[i].coins + (p \div 100)
                  /\ user'[i].points = user[i].points - 100 * (p \div 100)
                  /\ user[i].points - user'[i].points = p - (p % 100) ]_vars

C6_Witness ==
    /\ resp.op = "exchange_points" /\ resp.status = 200 /\ resp.args = <<250>>
    /\ resp.body.coins = 2 /\ resp.body.points = 50

\* C7: buy_coins(n) is rejected with 400, leaving the balance and the
\* Transaction and Notification collections as they were, when n <= 0;
\* otherwise coins grows by exactly n, points stays, and exactly one
\* Transaction and one Notification of that user are appended.
C7_BuyCoins ==
    [][ (resp'.op = "buy_coins" /\ CurrentUser(resp'.user) # 0) =>
          LET n == resp'.args[1]
              u == resp'.user
              i == CurrentUser(u)
          IN IF n <= 0
             THEN /\ resp'.status = 400
                  /\ UNCHANGED <<user, transaction, notification>>
             ELSE /\ resp'.status = 200
                  /\ user'[i].coins = user[i].coins + n
                  /\ user'[i].points = user[i].points
                  /\ Len(transaction') = Len(transaction) + 1
                  /\ SubSeq(transaction', 1, Len(transaction)) = transaction
                  /\ transaction'[Len(transaction')].user_id = u
                  /\ Len(notification') = Len(notification) + 1
                  /\ SubSeq(notification', 1, Len(notification)) = notification
                  /\ notification'[Len(notification')].user_id = u ]_vars

C7_Witness ==
    /\ resp.op = "buy_coins" /\ resp.status = 200 /\ resp.args = <<10>>
    /\ Len(transaction) >= 1
    /\ transaction[Len(transaction)].type = "buy_coins"
    /\ notification[Len(notification)].user_id = resp.user

\* C8: when an enroll request creates the enrollment of u in a course that
\* has a lesson, u's progress for a lowest-order lesson of that course is
\* unlocked once the request completes, and the request unlocks nothing else.
C8_EnrollUnlocksFirst ==
    [][ EnrollCreated =>
          LET u == resp'.args[1]
              c == resp'.args[2]
              firsts == LeastAbove(c, -1)
          IN IF firsts = {} THEN UnlockFrame({})
             ELSE \E f \in firsts :
                    /\ UnlockedIn(lessonprogress', u, f)
                    /\ UnlockFrame({<<u, f>>}) ]_vars

C8_Witness ==
    /\ resp.op = "enroll" /\ resp.status = 200
    /\ "enrollment_id" \in DOMAIN resp.body
    /\ \E f \in LeastAbove(resp.args[2], -1) :
         /\ UnlockedIn(lessonprogress, resp.args[1], f)
         /\ \E m \in 1..Len(lesson) :
              lesson[m].course_id = resp.args[2]
                /\ ~UnlockedIn(lessonprogress, resp.args[1], m)

\* C9: a submit_quiz that repeats the submission served just before it (same
\* user, lesson and answers) returns the same score, total, percentage and
\* passed, finds and leaves the lesson completed with the same quiz_score
\* and quiz_total, and leaves the progress store as the first one left it.
C9_ResubmitIdempotent ==
    [][ (resp.op = "submit_quiz" /\ resp.status = 200 /\ SubmitReturned
           /\ resp'.user = resp.user /\ resp'.args = resp.args) =>
          LET q == [user_id |-> resp.user, lesson_id |-> resp.args[1]]
              done == [is_completed |-> TRUE, quiz_score |-> resp.body.score,
                       quiz_total |-> resp.body.total]
          IN /\ resp'.body = resp.body
             /\ FindOne(lessonprogress, q) # 0
             /\ Matches(lessonprogress[FindOne(lessonprogress, q)], done)
             /\ FindOne(lessonprogress', q) # 0
             /\ Matches(lessonprogress'[FindOne(lessonprogress', q)], done)
             /\ lessonprogress' = lessonprogress ]_vars

C9_Witness ==
    /\ resp.op = "submit_quiz" /\ resp.status = 200 /\ resp.again
    /\ resp.body.passed
    /\ UnlockedIn(lessonprogress, resp.user, 2)

\* C10: a progress document with is_completed = true also has
\* is_unlocked = true: a lesson is completed only from the unlocked state.
C10_CompletedImpliesUnlocked ==
    \A i \in 1..Len(lessonprogress) :
        Get(lessonprogress[i], "is_completed", FALSE)
            => Get(lessonprogress[i], "is_unlocked", FALSE)
====
